---- MODULE Spec2Model ----
(***************************************************************************)
(* neocities-sync: the file trees, their pairing (FileTree.zip), the       *)
(* pairwise decision (_choose_action_for_pair), the action stream          *)
(* (sync_actions), the driver loop that executes it over the sites of the  *)
(* config file (main), the empty directories of a tree                     *)
(* (FileTree.is_empty_dir), the ignore files (TreePathSpec) and the        *)
(* filter of the local tree (IgnoreFiles.filter).                          *)
(*                                                                         *)
(* A path is a Python str.  startswith(), "+" and slicing are SubSeq, \o   *)
(* and Len on the string; sorted() compares code points, given by Ord.     *)
(***************************************************************************)
EXTENDS Integers, Sequences, FiniteSets, TLC

VARIABLES
    local,      \* main: local_filetree (after the ignore filter), a FileTree
    server,     \* the site's files as the server holds them
    remote,     \* main: remote_filetree, the listing client.list() returned
    pc,         \* where the program is: "ready", "sync", "done" in a sync
                \* run; "sites", "actions", "empty", "exit" in main's site
                \* loop; "load"/"init", "call", "list", "return" around a
                \* function called on its own
    second,     \* TRUE once the program has been started a second time
    pairs,      \* sync_actions: the list local.zip(remote) being iterated
    idx,        \* sync_actions: index of the next pair of pairs
    pending,    \* sync_actions: actions of the current pair not yet looked at
    deleted,    \* sync_actions: deleted
    emitted,    \* the actions sync_actions has yielded, in order
    dropped,    \* the actions sync_actions has skipped with continue, in order
    ignore_files,   \* the ignore files on disk: <<directory, lines>> as
                    \* os.walk meets them
    pathspec_list,  \* TreePathSpec: __pathspec_list
    arg,        \* pure-function specifications: the arguments drawn
    ret,        \* pure-function specifications: the value returned
    conf,       \* main: conf, the sites of the config file in file order
    cmdline_opts,   \* main: cmdline_opts (sites, dry_run)
    site,       \* main: position of the site loop in conf
    plan,       \* main: the actions sync_actions yields for the site
    done,       \* main: number of actions of plan the loop has handled
    calls,      \* the calls made to the Neocities client, in order
    applied_actions,    \* main: applied_actions
    exit_status,        \* exit status of the process, None while it runs
    empty_directories   \* main: empty directories still to be deleted

vars == <<local, server, remote, pc, second, pairs, idx, pending, deleted,
          emitted, dropped, ignore_files, pathspec_list, arg, ret,
          conf, cmdline_opts, site, plan, done, calls, applied_actions,
          exit_status, empty_directories>>

\* What a sync run leaves alone, what a call of a pure function leaves alone.
matchVars == <<ignore_files, pathspec_list>>
pureVars == <<arg, ret>>
mainVars == <<conf, cmdline_opts, site, plan, done, calls, applied_actions,
              exit_status, empty_directories>>
syncVars == <<local, server, remote, second, pairs, idx, pending, deleted,
              emitted, dropped>>

-----------------------------------------------------------------------------
(* Bounds *)

\* Number of distinct file contents a tree entry can have.
MaxContent == 3

\* Sizes and hashes of the entries _choose_action_for_pair is called with.
MaxSize == 2
MaxHash == 2

\* Their modification times.
Times == { "Sat, 13 Feb 2016 03:04:00 -0000", "Sun, 14 Feb 2016 03:04:00 -0000" }

\* The paths of the model.  "a-" shares a string prefix with "a" without lying
\* under it, and sorts between "a" and "a/b".
PathUniverse == { "a", "a-", "a/b", "a/b/c" }

\* Order in which the local walk lists the paths (a directory, then what is
\* under it, then its siblings) and order in which the server lists them.
LocalOrder == << "a", "a/b", "a/b/c", "a-" >>
RemoteOrder == << "a/b/c", "a/b", "a-", "a" >>

-----------------------------------------------------------------------------
(* Strings *)

\* ord(c) of the characters that occur in the model's strings.
Ord ==
    [c \in {"!", "*", "-", ".", "/"} |->
        CASE c = "!" -> 33 [] c = "*" -> 42 [] c = "-" -> 45
          [] c = "." -> 46 [] c = "/" -> 47]
    @@
    [c \in {"a", "b", "c", "d", "e", "f", "g", "h", "i", "j", "k", "l", "m",
            "n", "o", "p", "q", "r", "s", "t", "u", "v", "w", "x", "y", "z"} |->
        CASE c = "a" -> 97 [] c = "b" -> 98 [] c = "c" -> 99 [] c = "d" -> 100
          [] c = "e" -> 101 [] c = "f" -> 102 [] c = "g" -> 103
          [] c = "h" -> 104 [] c = "i" -> 105 [] c = "j" -> 106
          [] c = "k" -> 107 [] c = "l" -> 108 [] c = "m" -> 109
          [] c = "n" -> 110 [] c = "o" -> 111 [] c = "p" -> 112
          [] c = "q" -> 113 [] c = "r" -> 114 [] c = "s" -> 115
          [] c = "t" -> 116 [] c = "u" -> 117 [] c = "v" -> 118
          [] c = "w" -> 119 [] c = "x" -> 120 [] c = "y" -> 121
          [] c = "z" -> 122]

\* s[k] as a one-character string
Ch(s, k) == SubSeq(s, k, k)

\* str.startswith
startswith(s, prefix) ==
    /\ Len(prefix) <= Len(s)
    /\ SubSeq(s, 1, Len(prefix)) = prefix

\* s < t for Python str: code point by code point, a proper prefix first.
LexLess(s, t) ==
    \E k \in 1..Len(t) :
        /\ \A j \in 1..(k - 1) : j <= Len(s) /\ Ch(s, j) = Ch(t, j)
        /\ \/ k = Len(s) + 1
           \/ k <= Len(s) /\ Ord[Ch(s, k)] < Ord[Ch(t, k)]

\* q lies under directory p: q.startswith(p + "/")
IsUnder(q, p) == startswith(q, p \o "/")

-----------------------------------------------------------------------------
(* FileTreeEntry and FileTree *)

\* Optional[...] = None
None == [none |-> TRUE]

\* Size of a content; two contents can have the same size, never the same hash.
SizeOf(c) == 2 - (c % 2)

FileEntry(p, c, t) ==
    [path |-> p, is_directory |-> FALSE, updated_at |-> t,
     size |-> SizeOf(c), sha1_hash |-> c]

DirEntry(p, t) == [path |-> p, is_directory |-> TRUE, updated_at |-> t]

Range(s) == { s[i] : i \in 1..Len(s) }

\* FileTree.find: the first entry with that path, else None.
find(tree, path) ==
    IF \E i \in 1..Len(tree) : tree[i].path = path
    THEN tree[CHOOSE i \in 1..Len(tree) :
                 /\ tree[i].path = path
                 /\ \A j \in 1..(i - 1) : tree[j].path # path]
    ELSE None

\* the paths of every entry, directories included
PathsWithDirsMutant(tree) == { e.path : e \in Range(tree) }

\* [file.path for file in tree if not file.is_directory], as a set
FilePaths(tree) == { e.path : e \in { x \in Range(tree) : ~x.is_directory } }

\* The files of a tree by path, size and hash.
FilesOf(tree) ==
    { <<e.path, e.size, e.sha1_hash>> :
        e \in { x \in Range(tree) : ~x.is_directory } }

RECURSIVE sorted(_)
\* sorted(S) for a set of str
sorted(S) ==
    IF S = {} THEN <<>>
    ELSE LET m == CHOOSE x \in S : \A y \in S \ {x} : LexLess(x, y)
         IN  <<m>> \o sorted(S \ {m})

\* [file.path for file in tree if not file.is_directory], in tree order
FilePathSeq(tree) ==
    LET files == SelectSeq(tree, LAMBDA e : ~e.is_directory)
    IN  [i \in 1..Len(files) |-> files[i].path]

RECURSIVE Dedup(_)
\* a list without the repeats of an element, first occurrences kept
Dedup(s) ==
    IF s = <<>> THEN <<>>
    ELSE LET front == Dedup(SubSeq(s, 1, Len(s) - 1))
         IN  IF s[Len(s)] \in Range(front) THEN front
             ELSE Append(front, s[Len(s)])

\* zip that pairs the paths in list order, without sorted()
ZipUnsortedMutant(self, other) ==
    LET all_paths == Dedup(FilePathSeq(self) \o FilePathSeq(other))
    IN  [i \in 1..Len(all_paths) |->
            <<find(self, all_paths[i]), find(other, all_paths[i])>>]

\* zip that pairs the paths of self only
ZipSelfOnlyMutant(self, other) ==
    LET all_paths == sorted(FilePaths(self))
    IN  [i \in 1..Len(all_paths) |->
            <<find(self, all_paths[i]), find(other, all_paths[i])>>]

\* zip that pairs every path of the two trees, directories included
ZipAllPathsMutant(self, other) ==
    LET all_paths == sorted({ e.path : e \in Range(self) \cup Range(other) })
    IN  [i \in 1..Len(all_paths) |->
            <<find(self, all_paths[i]), find(other, all_paths[i])>>]

\* zip that pairs the paths in descending order
ZipDescendingMutant(self, other) ==
    LET all_paths == sorted(FilePaths(self) \cup FilePaths(other))
        n == Len(all_paths)
    IN  [i \in 1..n |->
            <<find(self, all_paths[n + 1 - i]),
              find(other, all_paths[n + 1 - i])>>]

\* FileTree.zip
zip(self, other) ==
    LET all_paths == sorted(FilePaths(self) \cup FilePaths(other))
    IN  [i \in 1..Len(all_paths) |->
            <<find(self, all_paths[i]), find(other, all_paths[i])>>]

-----------------------------------------------------------------------------
(* SyncAction and _choose_action_for_pair *)

DoNothing(p, r) == [kind |-> "DoNothing", path |-> p, reason |-> r]
DeleteRemote(p, r) == [kind |-> "DeleteRemote", path |-> p, reason |-> r]
UpdateRemote(p, r) == [kind |-> "UpdateRemote", path |-> p, reason |-> r]

\* a decision that takes a remote directory without local entry for nothing
\* to delete
ChooseKeepRemoteDirMutant(l, r) ==
    IF l = None /\ r = None THEN <<>>
    ELSE IF l = None THEN
        IF r.is_directory THEN <<>>
        ELSE << DeleteRemote(r.path, "File doesn't exist locally") >>
    ELSE IF r = None THEN
        << UpdateRemote(l.path, "File doesn't exist in remote") >>
    ELSE IF l.is_directory /\ r.is_directory THEN <<>>
    ELSE IF ~l.is_directory /\ r.is_directory THEN
        << DeleteRemote(l.path, "Path is a directory in remote"),
           UpdateRemote(l.path, "Path is a directory in remote") >>
    ELSE IF l.is_directory /\ ~r.is_directory THEN
        << DeleteRemote(r.path, "Path is a directory locally") >>
    ELSE IF l.size # r.size THEN
        << UpdateRemote(l.path, "Sizes differ") >>
    ELSE IF l.sha1_hash # r.sha1_hash THEN
        << UpdateRemote(l.path, "SHA1 hashes don't match") >>
    ELSE << DoNothing(l.path, "No action needed") >>

\* a decision that uploads before it deletes the remote directory
ChooseUploadFirstMutant(l, r) ==
    IF l = None /\ r = None THEN <<>>
    ELSE IF l = None THEN
        << DeleteRemote(r.path, "File doesn't exist locally") >>
    ELSE IF r = None THEN
        << UpdateRemote(l.path, "File doesn't exist in remote") >>
    ELSE IF l.is_directory /\ r.is_directory THEN <<>>
    ELSE IF ~l.is_directory /\ r.is_directory THEN
        << UpdateRemote(l.path, "Path is a directory in remote"),
           DeleteRemote(l.path, "Path is a directory in remote") >>
    ELSE IF l.is_directory /\ ~r.is_directory THEN
        << DeleteRemote(r.path, "Path is a directory locally") >>
    ELSE IF l.size # r.size THEN
        << UpdateRemote(l.path, "Sizes differ") >>
    ELSE IF l.sha1_hash # r.sha1_hash THEN
        << UpdateRemote(l.path, "SHA1 hashes don't match") >>
    ELSE << DoNothing(l.path, "No action needed") >>

\* a decision that compares the hashes before the sizes
ChooseHashFirstMutant(l, r) ==
    IF l = None /\ r = None THEN <<>>
    ELSE IF l = None THEN
        << DeleteRemote(r.path, "File doesn't exist locally") >>
    ELSE IF r = None THEN
        << UpdateRemote(l.path, "File doesn't exist in remote") >>
    ELSE IF l.is_directory /\ r.is_directory THEN <<>>
    ELSE IF ~l.is_directory /\ r.is_directory THEN
        << DeleteRemote(l.path, "Path is a directory in remote"),
           UpdateRemote(l.path, "Path is a directory in remote") >>
    ELSE IF l.is_directory /\ ~r.is_directory THEN
        << DeleteRemote(r.path, "Path is a directory locally") >>
    ELSE IF l.sha1_hash # r.sha1_hash THEN
        << UpdateRemote(l.path, "SHA1 hashes don't match") >>
    ELSE IF l.size # r.size THEN
        << UpdateRemote(l.path, "Sizes differ") >>
    ELSE << DoNothing(l.path, "No action needed") >>

\* a decision that also compares the modification times of two files
ChooseByTimeMutant(l, r) ==
    IF l = None /\ r = None THEN <<>>
    ELSE IF l = None THEN
        << DeleteRemote(r.path, "File doesn't exist locally") >>
    ELSE IF r = None THEN
        << UpdateRemote(l.path, "File doesn't exist in remote") >>
    ELSE IF l.is_directory /\ r.is_directory THEN <<>>
    ELSE IF ~l.is_directory /\ r.is_directory THEN
        << DeleteRemote(l.path, "Path is a directory in remote"),
           UpdateRemote(l.path, "Path is a directory in remote") >>
    ELSE IF l.is_directory /\ ~r.is_directory THEN
        << DeleteRemote(r.path, "Path is a directory locally") >>
    ELSE IF l.size # r.size THEN
        << UpdateRemote(l.path, "Sizes differ") >>
    ELSE IF l.sha1_hash # r.sha1_hash THEN
        << UpdateRemote(l.path, "SHA1 hashes don't match") >>
    ELSE IF l.updated_at # r.updated_at THEN
        << UpdateRemote(l.path, "Modification times differ") >>
    ELSE << DoNothing(l.path, "No action needed") >>

\* a decision that deletes the path of a new local file before uploading it
ChooseDeleteMissingMutant(l, r) ==
    IF l = None /\ r = None THEN <<>>
    ELSE IF l = None THEN
        << DeleteRemote(r.path, "File doesn't exist locally") >>
    ELSE IF r = None THEN
        << DeleteRemote(l.path, "File doesn't exist in remote"),
           UpdateRemote(l.path, "File doesn't exist in remote") >>
    ELSE IF l.is_directory /\ r.is_directory THEN <<>>
    ELSE IF ~l.is_directory /\ r.is_directory THEN
        << DeleteRemote(l.path, "Path is a directory in remote"),
           UpdateRemote(l.path, "Path is a directory in remote") >>
    ELSE IF l.is_directory /\ ~r.is_directory THEN
        << DeleteRemote(r.path, "Path is a directory locally") >>
    ELSE IF l.size # r.size THEN
        << UpdateRemote(l.path, "Sizes differ") >>
    ELSE IF l.sha1_hash # r.sha1_hash THEN
        << UpdateRemote(l.path, "SHA1 hashes don't match") >>
    ELSE << DoNothing(l.path, "No action needed") >>

\* _choose_action_for_pair
_choose_action_for_pair(l, r) ==
    IF l = None /\ r = None THEN <<>>
    ELSE IF l = None THEN
        << DeleteRemote(r.path, "File doesn't exist locally") >>
    ELSE IF r = None THEN
        << UpdateRemote(l.path, "File doesn't exist in remote") >>
    ELSE IF l.is_directory /\ r.is_directory THEN <<>>
    ELSE IF ~l.is_directory /\ r.is_directory THEN
        << DeleteRemote(l.path, "Path is a directory in remote"),
           UpdateRemote(l.path, "Path is a directory in remote") >>
    ELSE IF l.is_directory /\ ~r.is_directory THEN
        << DeleteRemote(r.path, "Path is a directory locally") >>
    ELSE IF l.size # r.size THEN
        << UpdateRemote(l.path, "Sizes differ") >>
    ELSE IF l.sha1_hash # r.sha1_hash THEN
        << UpdateRemote(l.path, "SHA1 hashes don't match") >>
    ELSE << DoNothing(l.path, "No action needed") >>

\* every action but DoNothing taken for a deletion
IsDeleteRemoteAnyMutant(a) == a.kind # "DoNothing"

\* sync_actions: isinstance(current_action, DeleteRemote)
IsDeleteRemote(a) == a.kind = "DeleteRemote"

\* the test without the "/": path.startswith(p)
UnderDeletedNoSlashMutant(del, path) ==
    \E i \in 1..Len(del) : startswith(path, del[i])

\* no suppression at all
UnderDeletedNeverMutant(del, path) == FALSE

\* every deletion after the first one suppressed
UnderDeletedAlwaysMutant(del, path) == del # <<>>

\* the test for the deleted path itself only: path == p
UnderDeletedExactMutant(del, path) ==
    \E i \in 1..Len(del) : path = del[i]

\* sync_actions: len([p for p in deleted if path.startswith(p + "/")]) > 0
UnderDeleted(del, path) ==
    \E i \in 1..Len(del) : startswith(path, del[i] \o "/")

-----------------------------------------------------------------------------
(* The server, as the driver's calls change it *)

\* Neocities.upload(p): the server stores the local file at p.
ServerUpload(srv, loc, p) ==
    LET f == find(loc, p)
        kept == SelectSeq(srv, LAMBDA e : e.path # p)
    IN  Append(kept, [path |-> p, is_directory |-> FALSE,
                      updated_at |-> "uploaded",
                      size |-> f.size, sha1_hash |-> f.sha1_hash])

\* Neocities.delete(p): the server removes p and everything under p/.
ServerDelete(srv, p) ==
    SelectSeq(srv, LAMBDA e : e.path # p /\ ~IsUnder(e.path, p))

-----------------------------------------------------------------------------
(* Initial trees *)

\* What a tree holds at each path: 0 nothing, -1 a directory, c > 0 a file
\* of content c.  No file is a proper ancestor of another entry.
TreeShapes ==
    { k \in [PathUniverse -> (-1)..MaxContent] :
        \A p \in PathUniverse, q \in PathUniverse :
            (k[p] > 0 /\ IsUnder(q, p)) => k[q] = 0 }

MkTree(order, k, t) ==
    LET all == [i \in 1..Len(order) |->
                    IF k[order[i]] = -1 THEN DirEntry(order[i], t)
                    ELSE FileEntry(order[i], k[order[i]], t)]
    IN  SelectSeq(all, LAMBDA e : k[e.path] # 0)

\* arg and ret while no pure function is being called
Idle == [idle |-> TRUE]

\* The variables of main's site loop while main is not what is being run.
NoMain ==
    /\ conf = <<>>
    /\ cmdline_opts = Idle
    /\ site = 1
    /\ plan = <<>>
    /\ done = 0
    /\ calls = <<>>
    /\ applied_actions = 0
    /\ exit_status = None
    /\ empty_directories = <<>>

Init ==
    /\ \E k \in TreeShapes : local = MkTree(LocalOrder, k, "mtime")
    /\ \E k \in TreeShapes : server = MkTree(RemoteOrder, k, "listed")
    /\ remote = <<>>
    /\ pc = "ready"
    /\ second = FALSE
    /\ pairs = <<>>
    /\ idx = 1
    /\ pending = <<>>
    /\ deleted = <<>>
    /\ emitted = <<>>
    /\ dropped = <<>>
    /\ ignore_files = <<>>
    /\ pathspec_list = <<>>
    /\ arg = Idle
    /\ ret = Idle
    /\ NoMain

-----------------------------------------------------------------------------
(* main and sync_actions *)

\* main fetches the remote listing and starts iterating sync_actions, which
\* zips the two trees.
StartSync ==
    /\ pc = "ready"
    /\ remote' = server
    /\ pairs' = zip(local, server)
    /\ idx' = 1
    /\ pending' = <<>>
    /\ deleted' = <<>>
    /\ emitted' = <<>>
    /\ dropped' = <<>>
    /\ pc' = "sync"
    /\ UNCHANGED <<local, server, second, matchVars, pureVars, mainVars>>

\* for local_entry, remote_entry in local.zip(remote): next pair
NextPair ==
    /\ pc = "sync"
    /\ pending = <<>>
    /\ idx <= Len(pairs)
    /\ pending' = _choose_action_for_pair(pairs[idx][1], pairs[idx][2])
    /\ idx' = idx + 1
    /\ UNCHANGED <<local, server, remote, pc, second, pairs, deleted,
                   emitted, dropped, matchVars, pureVars, mainVars>>

\* sync_actions skips the action with continue.
Suppressed(a) == IsDeleteRemote(a) /\ UnderDeleted(deleted, a.path)

\* deleted after sync_actions has looked at an action it yields
RecordDeleted(del, a) == IF IsDeleteRemote(a) THEN Append(del, a.path) ELSE del

\* A DeleteRemote under an already deleted path: continue.
SuppressDelete ==
    /\ pc = "sync"
    /\ pending # <<>>
    /\ Suppressed(Head(pending))
    /\ dropped' = Append(dropped, Head(pending))
    /\ pending' = Tail(pending)
    /\ UNCHANGED <<local, server, remote, pc, second, pairs, idx, deleted,
                   emitted, matchVars, pureVars, mainVars>>

\* A DeleteRemote is recorded and yielded; main calls client.delete.
EmitDelete ==
    /\ pc = "sync"
    /\ pending # <<>>
    /\ ~Suppressed(Head(pending))
    /\ Head(pending).kind = "DeleteRemote"
    /\ deleted' = RecordDeleted(deleted, Head(pending))
    /\ emitted' = Append(emitted, Head(pending))
    /\ server' = ServerDelete(server, Head(pending).path)
    /\ pending' = Tail(pending)
    /\ UNCHANGED <<local, remote, pc, second, pairs, idx, dropped, matchVars,
                   pureVars, mainVars>>

\* An UpdateRemote is yielded; main calls client.upload.
EmitUpdate ==
    /\ pc = "sync"
    /\ pending # <<>>
    /\ ~Suppressed(Head(pending))
    /\ Head(pending).kind = "UpdateRemote"
    /\ deleted' = RecordDeleted(deleted, Head(pending))
    /\ emitted' = Append(emitted, Head(pending))
    /\ server' = ServerUpload(server, local, Head(pending).path)
    /\ pending' = Tail(pending)
    /\ UNCHANGED <<local, remote, pc, second, pairs, idx, dropped, matchVars,
                   pureVars, mainVars>>

\* A DoNothing is yielded; main makes no call.
EmitDoNothing ==
    /\ pc = "sync"
    /\ pending # <<>>
    /\ ~Suppressed(Head(pending))
    /\ Head(pending).kind = "DoNothing"
    /\ deleted' = RecordDeleted(deleted, Head(pending))
    /\ emitted' = Append(emitted, Head(pending))
    /\ pending' = Tail(pending)
    /\ UNCHANGED <<local, server, remote, pc, second, pairs, idx, dropped,
                   matchVars, pureVars, mainVars>>

\* sync_actions is exhausted.
FinishSync ==
    /\ pc = "sync"
    /\ pending = <<>>
    /\ idx > Len(pairs)
    /\ pc' = "done"
    /\ UNCHANGED <<local, server, remote, second, pairs, idx, pending,
                   deleted, emitted, dropped, matchVars, pureVars, mainVars>>

\* The program is run again over the same local tree.
RunAgain ==
    /\ pc = "done"
    /\ ~second
    /\ second' = TRUE
    /\ pc' = "ready"
    /\ UNCHANGED <<local, server, remote, pairs, idx, pending, deleted,
                   emitted, dropped, matchVars, pureVars, mainVars>>

Next ==
    \/ StartSync
    \/ NextPair
    \/ SuppressDelete
    \/ EmitDelete
    \/ EmitUpdate
    \/ EmitDoNothing
    \/ FinishSync
    \/ RunAgain

Spec == Init /\ [][Next]_vars

-----------------------------------------------------------------------------
(* Properties of a sync run *)

\* The tree invariants: paths are unique and no file is a proper ancestor of
\* another entry.
TreeOK(tree) ==
    /\ \A i \in 1..Len(tree), j \in 1..Len(tree) :
            tree[i].path = tree[j].path => i = j
    /\ \A i \in 1..Len(tree), j \in 1..Len(tree) :
            IsUnder(tree[j].path, tree[i].path) => tree[i].is_directory

\* The path a pair of zip stands for.
PairPath(pr) == IF pr[1] # None THEN pr[1].path ELSE pr[2].path

\* Number of emitted actions that target path p.
EmittedAt(p) == Cardinality({ i \in 1..Len(emitted) : emitted[i].path = p })

\* An action of that kind and path has been emitted.
HasEmitted(kind, p) ==
    \E i \in 1..Len(emitted) : emitted[i].kind = kind /\ emitted[i].path = p

\* C1 (Convergence): when every action of sync_actions(local, remote) has
\* been executed in emitted order, for trees with unique paths in which no
\* file is a proper ancestor of another entry, the server holds exactly the
\* local tree's files: the same file paths, each with local's size and hash.
C1_Convergence ==
    (pc = "done" /\ TreeOK(local) /\ TreeOK(remote))
        => FilesOf(server) = FilesOf(local)

\* A finished first run that deleted, uploaded and suppressed something.
C1_Witness ==
    /\ pc = "done" /\ ~second
    /\ TreeOK(local) /\ TreeOK(remote)
    /\ dropped # <<>>
    /\ \E i \in 1..Len(emitted) : emitted[i].kind = "UpdateRemote"
    /\ \E i \in 1..Len(emitted) : emitted[i].kind = "DeleteRemote"
    /\ FilesOf(remote) # FilesOf(local)

\* C2 (Idempotence): once the actions of a first pass have been applied, a
\* second pass over the same local tree and the resulting remote yields only
\* DoNothing actions.
C2_Idempotence ==
    (second /\ pc \in {"sync", "done"}) =>
        /\ \A i \in 1..Len(emitted) : emitted[i].kind = "DoNothing"
        /\ \A i \in 1..Len(pending) : pending[i].kind = "DoNothing"

\* A finished second pass over a remote the first pass uploaded to.
C2_Witness ==
    /\ second /\ pc = "done"
    /\ Len(emitted) >= 2
    /\ \E i \in 1..Len(remote) : remote[i].updated_at = "uploaded"

\* The file paths present in exactly one of the two trees: a file in one
\* tree, no entry at all in the other.
OnlyLocal == { p \in FilePaths(local) : find(remote, p) = None }
OnlyRemote == { p \in FilePaths(remote) : find(local, p) = None }

\* C3 (Completeness, as stated): every file path present in exactly one of
\* the two trees gets exactly one action, an UpdateRemote or a DeleteRemote.
C3_Completeness_Original ==
    pc = "done" =>
        \A p \in OnlyLocal \cup OnlyRemote :
            /\ EmittedAt(p) = 1
            /\ HasEmitted("UpdateRemote", p) \/ HasEmitted("DeleteRemote", p)

\* C3 (Completeness, amended): a file path only in the local tree gets
\* exactly one action, an UpdateRemote; a file path only in the remote tree
\* gets exactly one action, a DeleteRemote, unless it lies under a path whose
\* DeleteRemote was emitted, and then it gets no action at all.
C3_Completeness ==
    pc = "done" =>
        /\ \A p \in OnlyLocal :
                EmittedAt(p) = 1 /\ HasEmitted("UpdateRemote", p)
        /\ \A p \in OnlyRemote :
                IF \E d \in PathUniverse :
                       HasEmitted("DeleteRemote", d) /\ IsUnder(p, d)
                THEN EmittedAt(p) = 0
                ELSE EmittedAt(p) = 1 /\ HasEmitted("DeleteRemote", p)

\* A finished run with a local-only file that got its UpdateRemote and a
\* remote-only file that got no action, being under a deleted directory.
C3_Witness ==
    /\ pc = "done"
    /\ \E p \in OnlyLocal : HasEmitted("UpdateRemote", p)
    /\ \E p \in OnlyRemote :
            /\ EmittedAt(p) = 0
            /\ \E d \in PathUniverse :
                   HasEmitted("DeleteRemote", d) /\ IsUnder(p, d)

\* C4 (Ancestor suppression): after DeleteRemote(d) has been emitted, no
\* DeleteRemote(p) with p under d/ is emitted and no such p is recorded in
\* deleted; what is dropped is a DeleteRemote under a recorded path; when d
\* is a file locally and a directory remotely, the deletion of d is emitted
\* and no deletion of a path under d.
C4_AncestorSuppression ==
    /\ \A i \in 1..Len(emitted), j \in 1..Len(emitted) :
            (/\ i < j
             /\ emitted[i].kind = "DeleteRemote"
             /\ emitted[j].kind = "DeleteRemote")
                => ~IsUnder(emitted[j].path, emitted[i].path)
    /\ deleted =
            LET dels == SelectSeq(emitted, LAMBDA a : a.kind = "DeleteRemote")
            IN  [i \in 1..Len(dels) |-> dels[i].path]
    /\ \A i \in 1..Len(dropped) :
            /\ dropped[i].kind = "DeleteRemote"
            /\ \E k \in 1..Len(deleted) : IsUnder(dropped[i].path, deleted[k])
            /\ \A k \in 1..Len(deleted) : deleted[k] # dropped[i].path
    /\ pc = "done" =>
            \A d \in PathUniverse :
                (/\ find(local, d) # None /\ ~find(local, d).is_directory
                 /\ find(remote, d) # None /\ find(remote, d).is_directory)
                    => /\ HasEmitted("DeleteRemote", d)
                       /\ \A p \in PathUniverse :
                              IsUnder(p, d) => ~HasEmitted("DeleteRemote", p)

\* A finished run in which d is a local file and a remote directory and the
\* deletion of a remote file under d was dropped.
C4_Witness ==
    /\ pc = "done"
    /\ \E d \in PathUniverse :
            /\ find(local, d) # None /\ ~find(local, d).is_directory
            /\ find(remote, d) # None /\ find(remote, d).is_directory
            /\ \E i \in 1..Len(dropped) : IsUnder(dropped[i].path, d)

\* C9 (zip): one pair for each path in the union of the non-directory paths
\* of the two trees, in strictly increasing path order, the pair for p being
\* (local.find(p), remote.find(p)).
C9_Zip ==
    pc \in {"sync", "done"} =>
        LET keys == { p \in PathUniverse :
                        \E e \in Range(local) \cup Range(remote) :
                            e.path = p /\ ~e.is_directory }
        IN  /\ Len(pairs) = Cardinality(keys)
            /\ { PairPath(pairs[i]) : i \in 1..Len(pairs) } = keys
            /\ \A i \in 1..(Len(pairs) - 1) :
                    LexLess(PairPath(pairs[i]), PairPath(pairs[i + 1]))
            /\ \A i \in 1..Len(pairs) :
                    pairs[i] = << find(local, PairPath(pairs[i])),
                                  find(remote, PairPath(pairs[i])) >>

\* A zip of three pairs or more with an absent side, a directory side and
\* "a-" paired before "a/b".
C9_Witness ==
    /\ pc = "sync"
    /\ Len(pairs) >= 3
    /\ \E i \in 1..Len(pairs) : pairs[i][1] = None
    /\ \E i \in 1..Len(pairs) : pairs[i][2] # None /\ pairs[i][2].is_directory
    /\ \E i \in 1..(Len(pairs) - 1) :
            PairPath(pairs[i]) = "a-" /\ PairPath(pairs[i + 1]) = "a/b"

RECURSIVE Flat(_)
\* The actions _choose_action_for_pair returns for the first k pairs.
Flat(k) ==
    IF k = 0 THEN <<>>
    ELSE Flat(k - 1) \o _choose_action_for_pair(pairs[k][1], pairs[k][2])

RECURSIVE IsSubsequence(_, _)
IsSubsequence(s, t) ==
    IF s = <<>> THEN TRUE
    ELSE IF t = <<>> THEN FALSE
    ELSE IF Head(s) = Head(t) THEN IsSubsequence(Tail(s), Tail(t))
    ELSE IsSubsequence(s, Tail(t))

\* C10 (stream order): the emitted actions are, in order, the actions that
\* _choose_action_for_pair returns pair by pair in zip's order, less the
\* dropped ones; every UpdateRemote and DoNothing returned is emitted and
\* only DeleteRemote actions are dropped.
C10_StreamOrder ==
    pc \in {"sync", "done"} =>
        LET all == Flat(idx - 1)
            seen == SubSeq(all, 1, Len(all) - Len(pending))
            kept(s) == SelectSeq(s, LAMBDA a : a.kind # "DeleteRemote")
        IN  /\ pending = SubSeq(all, Len(seen) + 1, Len(all))
            /\ IsSubsequence(emitted, seen)
            /\ Len(emitted) + Len(dropped) = Len(seen)
            /\ kept(emitted) = kept(seen)
            /\ \A i \in 1..Len(dropped) : dropped[i].kind = "DeleteRemote"
            /\ \A i \in 1..Len(emitted), j \in 1..Len(emitted) :
                    i < j => ~LexLess(emitted[j].path, emitted[i].path)

\* A finished run that dropped a deletion and emitted an UpdateRemote for a
\* path under a deleted one, after a pair that returned two actions.
C10_Witness ==
    /\ pc = "done"
    /\ dropped # <<>>
    /\ \E i \in 1..Len(emitted), j \in 1..Len(emitted) :
            /\ i + 1 < j
            /\ emitted[i].kind = "DeleteRemote"
            /\ emitted[i + 1].kind = "UpdateRemote"
            /\ emitted[i + 1].path = emitted[i].path
            /\ emitted[j].kind = "DoNothing"

-----------------------------------------------------------------------------
(* _choose_action_for_pair called on its own *)

\* The entries and None that can stand at path p on one side of a pair.
SidesAt(p) ==
    {None}
    \cup { DirEntry(p, t) : t \in Times }
    \cup { [path |-> p, is_directory |-> FALSE, updated_at |-> t,
            size |-> sz, sha1_hash |-> h] :
                t \in Times, sz \in 1..MaxSize, h \in 1..MaxHash }

InitPair ==
    /\ \E p \in PathUniverse :
           \E l \in SidesAt(p), r \in SidesAt(p) : arg = <<l, r>>
    /\ ret = Idle
    /\ NoMain
    /\ pc = "call"
    /\ local = <<>>
    /\ server = <<>>
    /\ remote = <<>>
    /\ second = FALSE
    /\ pairs = <<>>
    /\ idx = 1
    /\ pending = <<>>
    /\ deleted = <<>>
    /\ emitted = <<>>
    /\ dropped = <<>>
    /\ ignore_files = <<>>
    /\ pathspec_list = <<>>

CallChooseActionForPair ==
    /\ pc = "call"
    /\ ret' = [value |-> _choose_action_for_pair(arg[1], arg[2])]
    /\ pc' = "return"
    /\ UNCHANGED <<syncVars, matchVars, arg, mainVars>>

NextChoose == CallChooseActionForPair

SpecPair == InitPair /\ [][NextChoose]_vars

\* The kinds and the paths of a list of actions.
KindsOf(acts) == [i \in 1..Len(acts) |-> acts[i].kind]
PathsOf(acts) == [i \in 1..Len(acts) |-> acts[i].path]

\* C6 (one side present): (None, remote entry) returns exactly one
\* DeleteRemote of remote.path, for a remote file and for a remote directory;
\* (local entry, None) returns exactly one UpdateRemote of local.path;
\* (None, None) returns the empty list.
C6_OneSide ==
    pc = "return" =>
        LET l == arg[1]
            r == arg[2]
        IN  /\ (l = None /\ r # None) =>
                    /\ KindsOf(ret.value) = << "DeleteRemote" >>
                    /\ PathsOf(ret.value) = << r.path >>
            /\ (l # None /\ r = None) =>
                    /\ KindsOf(ret.value) = << "UpdateRemote" >>
                    /\ PathsOf(ret.value) = << l.path >>
            /\ (l = None /\ r = None) => ret.value = <<>>

\* The call returned for a remote directory without local entry.
C6_Witness ==
    /\ pc = "return"
    /\ arg[1] = None
    /\ arg[2] # None /\ arg[2].is_directory
    /\ Len(ret.value) = 1

\* C7 (type conflict): local file against remote directory returns
\* DeleteRemote(path) then UpdateRemote(path); local directory against remote
\* file returns DeleteRemote(path) alone; directory against directory returns
\* the empty list.
C7_TypeConflict ==
    pc = "return" =>
        LET l == arg[1]
            r == arg[2]
        IN  (l # None /\ r # None) =>
                /\ (~l.is_directory /\ r.is_directory) =>
                        /\ KindsOf(ret.value) =
                                << "DeleteRemote", "UpdateRemote" >>
                        /\ PathsOf(ret.value) = << l.path, l.path >>
                /\ (l.is_directory /\ ~r.is_directory) =>
                        /\ KindsOf(ret.value) = << "DeleteRemote" >>
                        /\ PathsOf(ret.value) = << r.path >>
                /\ (l.is_directory /\ r.is_directory) => ret.value = <<>>

\* The call returned for a local file against a remote directory.
C7_Witness ==
    /\ pc = "return"
    /\ arg[1] # None /\ ~arg[1].is_directory
    /\ arg[2] # None /\ arg[2].is_directory
    /\ Len(ret.value) = 2

\* C8 (two files): different sizes give one UpdateRemote with the size
\* reason, whatever the hashes; equal sizes and different hashes give one
\* UpdateRemote with the hash reason; equal sizes and hashes give one
\* DoNothing; the result is the same for any modification times.
C8_TwoFiles ==
    pc = "return" =>
        LET l == arg[1]
            r == arg[2]
        IN  (l # None /\ r # None /\ ~l.is_directory /\ ~r.is_directory) =>
                /\ l.size # r.size =>
                        ret.value = << UpdateRemote(l.path, "Sizes differ") >>
                /\ (l.size = r.size /\ l.sha1_hash # r.sha1_hash) =>
                        ret.value =
                            << UpdateRemote(l.path, "SHA1 hashes don't match") >>
                /\ (l.size = r.size /\ l.sha1_hash = r.sha1_hash) =>
                        ret.value = << DoNothing(l.path, "No action needed") >>
                /\ \A t1 \in Times, t2 \in Times :
                        _choose_action_for_pair([l EXCEPT !.updated_at = t1],
                                            [r EXCEPT !.updated_at = t2])
                            = ret.value

\* The call returned for two files that differ in size, hash and time.
C8_Witness ==
    /\ pc = "return"
    /\ arg[1] # None /\ ~arg[1].is_directory
    /\ arg[2] # None /\ ~arg[2].is_directory
    /\ arg[1].size # arg[2].size
    /\ arg[1].sha1_hash # arg[2].sha1_hash
    /\ arg[1].updated_at # arg[2].updated_at
    /\ Len(ret.value) = 1

-----------------------------------------------------------------------------
(* TreePathSpec: the ignore files of a directory tree *)

\* The directories os.walk(".") visits, in its order, and what an ignore
\* file can hold.
WalkDirs == << ".", "./keep", "./keep/sub", "./other" >>
IgnoreContents ==
    { << "*.log" >>, << "!important.log" >>, << "*.log", "!important.log" >>,
      << "/keep/*.log" >>, << "*" >> }

\* The files match is asked about, relative to the walk's root, and the
\* working directories of the process.
QueryFiles ==
    { "keep/important.log", "keep/debug.log", "other/debug.log",
      "other/important.log", "important.log", "keep" }
WorkDirs == { "/", "/site" }

RECURSIVE split(_)
\* s.split("/")
split(s) ==
    IF \E k \in 1..Len(s) : Ch(s, k) = "/"
    THEN LET k == CHOOSE i \in 1..Len(s) :
                    /\ Ch(s, i) = "/"
                    /\ \A j \in 1..(i - 1) : Ch(s, j) # "/"
         IN  << SubSeq(s, 1, k - 1) >> \o split(SubSeq(s, k + 1, Len(s)))
    ELSE << s >>

RECURSIVE join(_)
\* "/".join(segs)
join(segs) ==
    IF segs = <<>> THEN ""
    ELSE IF Len(segs) = 1 THEN segs[1]
    ELSE segs[1] \o "/" \o join(Tail(segs))

RECURSIVE NormSegs(_, _)
\* os.path.normpath of an absolute path, as its list of components: empty
\* and "." components go, ".." removes the component before it.
NormSegs(segs, acc) ==
    IF segs = <<>> THEN acc
    ELSE IF Head(segs) = "" \/ Head(segs) = "." THEN NormSegs(Tail(segs), acc)
    ELSE IF Head(segs) = ".." THEN
        NormSegs(Tail(segs),
                 IF acc = <<>> THEN acc ELSE SubSeq(acc, 1, Len(acc) - 1))
    ELSE NormSegs(Tail(segs), Append(acc, Head(segs)))

\* [x for x in os.path.abspath(p).split("/") if x] in working directory cwd
AbsSegs(p, cwd) ==
    NormSegs(split(IF startswith(p, "/") THEN p ELSE cwd \o "/" \o p), <<>>)

\* os.path.relpath(path, start) in working directory cwd
relpath(path, start, cwd) ==
    LET start_list == AbsSegs(start, cwd)
        path_list == AbsSegs(path, cwd)
        common(k) == /\ k <= Len(start_list)
                     /\ k <= Len(path_list)
                     /\ SubSeq(start_list, 1, k) = SubSeq(path_list, 1, k)
        i == CHOOSE k \in 0..Len(start_list) :
                 common(k) /\ ~common(k + 1)
        rel_list == [j \in 1..(Len(start_list) - i) |-> ".."]
                    \o SubSeq(path_list, i + 1, Len(path_list))
    IN  IF rel_list = <<>> THEN "." ELSE join(rel_list)

\* _add_slash
_add_slash(path) ==
    IF path = "." THEN "/"
    ELSE IF startswith(path, "./") THEN SubSeq(path, 2, Len(path))
    ELSE IF ~startswith(path, "/") THEN "/" \o path
    ELSE path

RECURSIVE Glob(_, _)
\* One path component against one component of a pattern: "*" stands for any
\* run of characters, every other character for itself.
Glob(pat, seg) ==
    IF pat = "" THEN seg = ""
    ELSE IF Ch(pat, 1) = "*" THEN
        \E k \in 0..Len(seg) :
            Glob(SubSeq(pat, 2, Len(pat)), SubSeq(seg, k + 1, Len(seg)))
    ELSE /\ seg # ""
         /\ Ch(seg, 1) = Ch(pat, 1)
         /\ Glob(SubSeq(pat, 2, Len(pat)), SubSeq(seg, 2, Len(seg)))

\* A gitwildmatch line without its "!": a pattern without "/" matches a
\* component at any depth, a pattern with "/" matches from the scope root;
\* whatever lies under a matched component is matched too.  A component is
\* one character at least: the empty path matches nothing.
PatternMatches(pat, segs) ==
    IF \E k \in 1..Len(pat) : Ch(pat, k) = "/"
    THEN LET psegs == split(IF startswith(pat, "/")
                            THEN SubSeq(pat, 2, Len(pat)) ELSE pat)
         IN  /\ Len(psegs) <= Len(segs)
             /\ \A i \in 1..Len(psegs) :
                    segs[i] # "" /\ Glob(psegs[i], segs[i])
    ELSE \E i \in 1..Len(segs) : segs[i] # "" /\ Glob(pat, segs[i])

IsNegation(line) == startswith(line, "!")

LineMatches(line, segs) ==
    PatternMatches(IF IsNegation(line) THEN SubSeq(line, 2, Len(line))
                   ELSE line, segs)

\* PathSpec.match_file: the leading "/" of the file is dropped, the last line
\* that matches decides, a "!" line deciding that the file is not matched.
match_file(lines, file) ==
    LET norm == IF startswith(file, "/") THEN SubSeq(file, 2, Len(file))
                ELSE IF startswith(file, "./") THEN SubSeq(file, 3, Len(file))
                ELSE file
        segs == split(norm)
        hits == { i \in 1..Len(lines) : LineMatches(lines[i], segs) }
    IN  /\ hits # {}
        /\ ~IsNegation(lines[CHOOSE i \in hits : \A j \in hits : j <= i])

RECURSIVE MatchFrom(_, _, _, _)
\* TreePathSpec.match, from the k-th entry of the list on
MatchFrom(list, k, file, cwd) ==
    IF k > Len(list) THEN FALSE
    ELSE LET rel == relpath(file, list[k][1], cwd)
         IN  IF ~startswith(rel, "../")
                /\ match_file(list[k][2], _add_slash(rel))
             THEN TRUE
             ELSE MatchFrom(list, k + 1, file, cwd)

\* TreePathSpec.match
match(list, file, cwd) == MatchFrom(list, 1, file, cwd)

\* TreePathSpec.load: one entry for each directory with an ignore file, then
\* the list sorted by root, reversed.
LoadedList(found) ==
    LET entries == [i \in 1..Len(found) |->
                        << _add_slash(found[i][1]), found[i][2] >>]
        roots == sorted({ entries[i][1] : i \in 1..Len(entries) })
        n == Len(roots)
    IN  [i \in 1..n |->
            entries[CHOOSE j \in 1..Len(entries) :
                        entries[j][1] = roots[n + 1 - i]]]

\* The ignore files a directory tree can hold: any of the walked directories
\* has one or has none.
IgnoreFileSets ==
    { SelectSeq([i \in 1..Len(WalkDirs) |-> << WalkDirs[i], c[i] >>],
                LAMBDA e : e[2] # <<>>) :
        c \in [1..Len(WalkDirs) -> IgnoreContents \cup {<<>>}] }

InitMatch ==
    /\ ignore_files \in IgnoreFileSets
    /\ pathspec_list = <<>>
    /\ \E f \in QueryFiles, cwd \in WorkDirs, rooted \in BOOLEAN :
           arg = [file |-> IF rooted THEN "/" \o f ELSE f, cwd |-> cwd]
    /\ ret = Idle
    /\ NoMain
    /\ pc = "load"
    /\ local = <<>>
    /\ server = <<>>
    /\ remote = <<>>
    /\ second = FALSE
    /\ pairs = <<>>
    /\ idx = 1
    /\ pending = <<>>
    /\ deleted = <<>>
    /\ emitted = <<>>
    /\ dropped = <<>>

\* TreePathSpec.load
load ==
    /\ pc = "load"
    /\ pathspec_list' = LoadedList(ignore_files)
    /\ pc' = "call"
    /\ UNCHANGED <<syncVars, ignore_files, pureVars, mainVars>>

\* TreePathSpec.match(file)
CallMatch ==
    /\ pc = "call"
    /\ ret' = [value |-> match(pathspec_list, arg.file, arg.cwd)]
    /\ pc' = "return"
    /\ UNCHANGED <<syncVars, matchVars, arg, mainVars>>

NextMatch ==
    \/ load
    \/ CallMatch

SpecMatch == InitMatch /\ [][NextMatch]_vars

\* The ignore files of the layering example: "*.log" at the root,
\* "!important.log" in keep/.
LayeringExample ==
    << << ".", << "*.log" >> >>, << "./keep", << "!important.log" >> >> >>

\* The last line of an ignore file that matches the file is a "!" line.
NegatedBy(lines, file) ==
    LET segs == split(SubSeq(file, 2, Len(file)))
        hits == { i \in 1..Len(lines) : LineMatches(lines[i], segs) }
    IN  /\ hits # {}
        /\ IsNegation(lines[CHOOSE i \in hits : \A j \in hits : j <= i])

\* C5 (ignore layering precedence): with "*.log" at the root and
\* "!important.log" in keep/, match does not report keep/important.log and
\* does report other/debug.log; in general a path under a nested scope whose
\* ignore file negates it is not reported, whatever the parent's rules say.
C5_IgnoreLayering ==
    (pc = "return" /\ startswith(arg.file, "/")) =>
        /\ (ignore_files = LayeringExample /\ arg.file = "/keep/important.log")
                => ret.value = FALSE
        /\ (ignore_files = LayeringExample /\ arg.file = "/other/debug.log")
                => ret.value = TRUE
        /\ \A k \in 1..Len(pathspec_list) :
                LET root == pathspec_list[k][1]
                IN  (/\ root # "/"
                     /\ IsUnder(arg.file, root)
                     /\ NegatedBy(pathspec_list[k][2],
                                  _add_slash(relpath(arg.file, root, arg.cwd))))
                        => ret.value = FALSE

-----------------------------------------------------------------------------
(* FileTree.is_empty_dir and FileTree.list_empty_directories *)

\* A path no tree of the model holds.
UnknownPath == "x"

\* is_empty_dir that counts a directory under the path as content
IsEmptyDirNoEntryMutant(tree, path) ==
    LET directory == find(tree, path)
    IN  IF directory = None \/ ~directory.is_directory THEN FALSE
        ELSE \A i \in 1..Len(tree) :
                ~startswith(tree[i].path, path \o "/")

\* FileTree.is_empty_dir
is_empty_dir(tree, path) ==
    LET directory == find(tree, path)
    IN  IF directory = None \/ ~directory.is_directory THEN FALSE
        ELSE \A i \in 1..Len(tree) :
                ~(startswith(tree[i].path, path \o "/")
                    /\ ~tree[i].is_directory)

\* FileTree.list_empty_directories
list_empty_directories(tree) ==
    LET dirs == SelectSeq(tree, LAMBDA d :
                    d.is_directory /\ is_empty_dir(tree, d.path))
    IN  [i \in 1..Len(dirs) |-> dirs[i].path]

\* A tree in either listing order and a path to ask about.
InitEmpty ==
    /\ \E k \in TreeShapes, order \in {LocalOrder, RemoteOrder},
          p \in PathUniverse \cup {UnknownPath} :
            arg = [tree |-> MkTree(order, k, "listed"), path |-> p]
    /\ ret = Idle
    /\ NoMain
    /\ pc = "call"
    /\ local = <<>>
    /\ server = <<>>
    /\ remote = <<>>
    /\ second = FALSE
    /\ pairs = <<>>
    /\ idx = 1
    /\ pending = <<>>
    /\ deleted = <<>>
    /\ emitted = <<>>
    /\ dropped = <<>>
    /\ ignore_files = <<>>
    /\ pathspec_list = <<>>

\* tree.is_empty_dir(path)
CallIsEmptyDir ==
    /\ pc = "call"
    /\ ret' = [value |-> is_empty_dir(arg.tree, arg.path)]
    /\ pc' = "list"
    /\ UNCHANGED <<syncVars, matchVars, arg, mainVars>>

\* tree.list_empty_directories()
CallListEmptyDirectories ==
    /\ pc = "list"
    /\ ret' = [value |-> ret.value,
               listed |-> list_empty_directories(arg.tree)]
    /\ pc' = "return"
    /\ UNCHANGED <<syncVars, matchVars, arg, mainVars>>

NextEmpty ==
    \/ CallIsEmptyDir
    \/ CallListEmptyDirectories

SpecEmpty == InitEmpty /\ [][NextEmpty]_vars

\* The directory entries and the file entries of a tree.
DirPaths(tree) == { e.path : e \in { x \in Range(tree) : x.is_directory } }

\* C15 (empty directories): is_empty_dir(path) is true iff path is the path
\* of a directory entry of the tree and no non-directory entry has a path
\* starting with path + "/"; list_empty_directories lists exactly those
\* directories, in tree order, so a directory holding only directories is
\* listed and a file path or an unknown path is never empty.
C15_IsEmptyDir ==
    pc = "return" =>
        LET t == arg.tree
            empty(p) == /\ p \in DirPaths(t)
                        /\ \A q \in FilePaths(t) : ~startswith(q, p \o "/")
        IN  /\ ret.value = empty(arg.path)
            /\ Range(ret.listed) = { p \in DirPaths(t) : empty(p) }
            /\ \A i \in 1..Len(ret.listed), j \in 1..Len(ret.listed) :
                    i < j =>
                        \E m \in 1..Len(t), n \in 1..Len(t) :
                            /\ m < n
                            /\ t[m].path = ret.listed[i]
                            /\ t[n].path = ret.listed[j]
            /\ (arg.path \in DirPaths(t)
                    /\ (\A q \in PathUniverse :
                            startswith(q, arg.path \o "/")
                                => q \notin FilePaths(t))) => ret.value
            /\ arg.path \in FilePaths(t) => ~ret.value
            /\ arg.path \notin DirPaths(t) => ~ret.value

\* The directory "a" holds only the directory "a/b", which holds only the
\* directory "a/b/c": "a" is empty and listed with the two below it.
C15_Witness ==
    /\ pc = "return"
    /\ arg.path = "a"
    /\ { "a", "a/b", "a/b/c" } \subseteq DirPaths(arg.tree)
    /\ ret.value
    /\ { "a", "a/b", "a/b/c" } \subseteq Range(ret.listed)

-----------------------------------------------------------------------------
(* main: the loop over the sites of the config file *)

\* The sections of the config file, in file order.
SiteNames == << "site1", "site2" >>

\* What the -s options of the command line can name.
SiteOptions == { <<>>, <<"site1">>, <<"site2">>, <<"site1", "site2">> }

\* A tree shape by what it holds at "a", "a/b", "a/b/c" and "a-".
Shape(a, ab, abc, am) ==
    [p \in PathUniverse |->
        CASE p = "a" -> a
          [] p = "a/b" -> ab
          [] p = "a/b/c" -> abc
          [] OTHER -> am]

\* The local directories of the sites: a/b/c and a-; a- alone; the files
\* "a" and a-; nothing.
LocalSiteShapes ==
    { Shape(-1, -1, 1, 1), Shape(0, 0, 0, 1), Shape(1, 0, 0, 1),
      Shape(0, 0, 0, 0) }

\* What the server holds for a site: the same a/b/c and a-; another a/b/c;
\* the directories a and a/b without a file, and another a-; a file "a";
\* nothing.
ServerSiteShapes ==
    { Shape(-1, -1, 1, 1), Shape(-1, -1, 2, 0), Shape(-1, -1, 0, 2),
      Shape(1, 0, 0, 0), Shape(0, 0, 0, 0) }

\* A section of the config file.  root_dir stands for the tree that
\* IgnoreFiles.filter returns for that directory, api_key for the files the
\* server holds for the site the key identifies.
\* irregular says that the directory holds a path that is neither a file
\* nor a directory.
SiteConfs ==
    { [root_dir |-> MkTree(LocalOrder, l, "mtime"),
       api_key |-> MkTree(RemoteOrder, r, "listed"),
       remove_empty_dirs |-> e,
       irregular |-> x] :
        l \in LocalSiteShapes, r \in ServerSiteShapes, e \in BOOLEAN,
        x \in BOOLEAN }

RECURSIVE Yielded(_, _)
\* What sync_actions yields of the actions acts, with deleted = del.
Yielded(acts, del) ==
    IF acts = <<>> THEN <<>>
    ELSE IF IsDeleteRemote(Head(acts)) /\ UnderDeleted(del, Head(acts).path)
         THEN Yielded(Tail(acts), del)
         ELSE <<Head(acts)>>
                \o Yielded(Tail(acts), RecordDeleted(del, Head(acts)))

RECURSIVE ActionsOfPairs(_)
\* The actions _choose_action_for_pair returns for the pairs, in order.
ActionsOfPairs(prs) ==
    IF prs = <<>> THEN <<>>
    ELSE _choose_action_for_pair(Head(prs)[1], Head(prs)[2])
            \o ActionsOfPairs(Tail(prs))

\* list(sync_actions(local_tree, remote_tree))
sync_actions(local_tree, remote_tree) ==
    Yielded(ActionsOfPairs(zip(local_tree, remote_tree)), <<>>)

\* the walk takes whatever it meets for a file or a directory
WalkNeverRaisesMutant(site_conf) == FALSE

\* local.filetree raises RuntimeError: a path is neither a file nor a
\* directory.
WalkRaises(site_conf) == site_conf.irregular

\* main calls a client method for every action, DoNothing included
MethodForAllMutant(action) ==
    IF action.kind = "DeleteRemote" THEN "delete" ELSE "upload"

\* The client method main calls for an action: the isinstance chain.
MethodFor(action) ==
    IF action.kind = "UpdateRemote" THEN "upload"
    ELSE IF action.kind = "DeleteRemote" THEN "delete"
    ELSE "none"

\* --dry-run is not looked at
DryRunIgnoredMutant(opts) == FALSE

\* cmdline_opts.dry_run
DryRun(opts) == opts.dry_run

\* main goes on with the loop after an exception
AfterRaiseContinueMutant(at) == at

\* except Exception: error(...); exit(1) -- and an exception nothing
\* catches: the process is over.
AfterRaise(at) == "exit"

\* The exit status after an exception, given where main is then.
StatusAfterRaise(at) == IF AfterRaise(at) = "exit" THEN 1 ELSE None

\* A call of a client method, as the log keeps it.
Call(s, phase, op, path, ok) ==
    [site |-> s, phase |-> phase, op |-> op, path |-> path, ok |-> ok]

\* sorted(paths), without reverse=True
SortedAscendingMutant(paths) == sorted(Range(paths))

\* sorted(paths, reverse=True)
SortedReverse(paths) ==
    LET up == sorted(Range(paths))
    IN  [i \in 1..Len(up) |-> up[Len(up) + 1 - i]]

InitMain ==
    /\ conf \in [1..Len(SiteNames) -> SiteConfs]
    /\ \E names \in SiteOptions, d \in BOOLEAN :
            cmdline_opts = [sites |-> names, dry_run |-> d]
    /\ site = 1
    /\ plan = <<>>
    /\ done = 0
    /\ calls = <<>>
    /\ applied_actions = 0
    /\ exit_status = None
    /\ empty_directories = <<>>
    /\ pc = "sites"
    /\ local = <<>>
    /\ server = <<>>
    /\ remote = <<>>
    /\ second = FALSE
    /\ pairs = <<>>
    /\ idx = 1
    /\ pending = <<>>
    /\ deleted = <<>>
    /\ emitted = <<>>
    /\ dropped = <<>>
    /\ ignore_files = <<>>
    /\ pathspec_list = <<>>
    /\ arg = Idle
    /\ ret = Idle

\* What the actions of main leave alone besides main's own variables.
restVars == <<second, pairs, idx, pending, deleted, emitted, dropped,
              matchVars, pureVars>>

\* for site, site_conf in conf.items(): the local tree is listed and
\* filtered, the remote tree is fetched and sync_actions is started.
StartSite ==
    /\ pc = "sites"
    /\ site <= Len(conf)
    /\ ~WalkRaises(conf[site])
    /\ local' = conf[site].root_dir
    /\ server' = conf[site].api_key
    /\ remote' = conf[site].api_key
    /\ calls' = Append(calls, Call(SiteNames[site], "plan", "list", "", TRUE))
    /\ plan' = sync_actions(conf[site].root_dir, conf[site].api_key)
    /\ done' = 0
    /\ applied_actions' = 0
    /\ pc' = "actions"
    /\ UNCHANGED <<conf, cmdline_opts, site, exit_status, empty_directories,
                   restVars>>

\* local.filetree(".") raises for the site: nothing catches it, and
\* client.list() has not been called.
LocalWalkRaises ==
    /\ pc = "sites"
    /\ site <= Len(conf)
    /\ WalkRaises(conf[site])
    /\ pc' = AfterRaise(pc)
    /\ exit_status' = StatusAfterRaise(pc)
    /\ UNCHANGED <<local, server, remote, conf, cmdline_opts, site, plan,
                   done, calls, applied_actions, empty_directories, restVars>>

\* client.list() raises for the site: nothing catches it.
ListRaises ==
    /\ pc = "sites"
    /\ site <= Len(conf)
    /\ ~WalkRaises(conf[site])
    /\ calls' = Append(calls, Call(SiteNames[site], "plan", "list", "", FALSE))
    /\ pc' = AfterRaise(pc)
    /\ exit_status' = StatusAfterRaise(pc)
    /\ UNCHANGED <<local, server, remote, conf, cmdline_opts, site, plan,
                   done, applied_actions, empty_directories, restVars>>

\* The next action is an UpdateRemote: client.upload(action.path) unless
\* dry_run, and the action is counted.
UploadAction ==
    /\ pc = "actions"
    /\ done < Len(plan)
    /\ MethodFor(plan[done + 1]) = "upload"
    /\ IF DryRun(cmdline_opts)
       THEN UNCHANGED <<calls, server>>
       ELSE /\ calls' = Append(calls, Call(SiteNames[site], "plan", "upload",
                                           plan[done + 1].path, TRUE))
            /\ server' = ServerUpload(server, local, plan[done + 1].path)
    /\ applied_actions' = applied_actions + 1
    /\ done' = done + 1
    /\ UNCHANGED <<local, remote, pc, conf, cmdline_opts, site, plan,
                   exit_status, empty_directories, restVars>>

\* The next action is a DeleteRemote: client.delete(action.path) unless
\* dry_run, and the action is counted.
DeleteAction ==
    /\ pc = "actions"
    /\ done < Len(plan)
    /\ MethodFor(plan[done + 1]) = "delete"
    /\ IF DryRun(cmdline_opts)
       THEN UNCHANGED <<calls, server>>
       ELSE /\ calls' = Append(calls, Call(SiteNames[site], "plan", "delete",
                                           plan[done + 1].path, TRUE))
            /\ server' = ServerDelete(server, plan[done + 1].path)
    /\ applied_actions' = applied_actions + 1
    /\ done' = done + 1
    /\ UNCHANGED <<local, remote, pc, conf, cmdline_opts, site, plan,
                   exit_status, empty_directories, restVars>>

\* The next action is a DoNothing: no call.
SkipAction ==
    /\ pc = "actions"
    /\ done < Len(plan)
    /\ MethodFor(plan[done + 1]) = "none"
    /\ done' = done + 1
    /\ UNCHANGED <<local, server, remote, pc, conf, cmdline_opts, site, plan,
                   calls, applied_actions, exit_status, empty_directories,
                   restVars>>

\* client.upload or client.delete raises: error(...), exit(1).
ActionRaises ==
    /\ pc = "actions"
    /\ done < Len(plan)
    /\ MethodFor(plan[done + 1]) # "none"
    /\ ~DryRun(cmdline_opts)
    /\ calls' = Append(calls, Call(SiteNames[site], "plan",
                                   MethodFor(plan[done + 1]),
                                   plan[done + 1].path, FALSE))
    /\ pc' = AfterRaise(pc)
    /\ exit_status' = StatusAfterRaise(pc)
    /\ UNCHANGED <<local, server, remote, conf, cmdline_opts, site, plan,
                   done, applied_actions, empty_directories, restVars>>

\* The plan is exhausted and remove_empty_dirs is set: the remote tree is
\* fetched again and its empty directories are sorted in reverse.
SearchEmptyDirs ==
    /\ pc = "actions"
    /\ done = Len(plan)
    /\ conf[site].remove_empty_dirs
    /\ remote' = server
    /\ calls' = Append(calls, Call(SiteNames[site], "empty", "list", "", TRUE))
    /\ empty_directories' = SortedReverse(list_empty_directories(server))
    /\ pc' = "empty"
    /\ UNCHANGED <<local, server, conf, cmdline_opts, site, plan, done,
                   applied_actions, exit_status, restVars>>

\* The second client.list() raises: nothing catches it.
SearchRaises ==
    /\ pc = "actions"
    /\ done = Len(plan)
    /\ conf[site].remove_empty_dirs
    /\ calls' = Append(calls, Call(SiteNames[site], "empty", "list", "", FALSE))
    /\ pc' = AfterRaise(pc)
    /\ exit_status' = StatusAfterRaise(pc)
    /\ UNCHANGED <<local, server, remote, conf, cmdline_opts, site, plan,
                   done, applied_actions, empty_directories, restVars>>

\* for empty_dir in sorted(empty_directories, reverse=True):
\* client.delete(empty_dir) unless dry_run.
DeleteEmptyDir ==
    /\ pc = "empty"
    /\ empty_directories # <<>>
    /\ IF DryRun(cmdline_opts)
       THEN UNCHANGED <<calls, server>>
       ELSE /\ calls' = Append(calls, Call(SiteNames[site], "empty", "delete",
                                           Head(empty_directories), TRUE))
            /\ server' = ServerDelete(server, Head(empty_directories))
    /\ empty_directories' = Tail(empty_directories)
    /\ UNCHANGED <<local, remote, pc, conf, cmdline_opts, site, plan, done,
                   applied_actions, exit_status, restVars>>

\* client.delete(empty_dir) raises: nothing catches it.
DeleteEmptyDirRaises ==
    /\ pc = "empty"
    /\ empty_directories # <<>>
    /\ ~DryRun(cmdline_opts)
    /\ calls' = Append(calls, Call(SiteNames[site], "empty", "delete",
                                   Head(empty_directories), FALSE))
    /\ pc' = AfterRaise(pc)
    /\ exit_status' = StatusAfterRaise(pc)
    /\ UNCHANGED <<local, server, remote, conf, cmdline_opts, site, plan,
                   done, applied_actions, empty_directories, restVars>>

\* Finished sync for the site, with or without the search for empty
\* directories: the loop goes to the next site.
FinishSite ==
    /\ \/ pc = "empty" /\ empty_directories = <<>>
       \/ pc = "actions" /\ done = Len(plan) /\ ~conf[site].remove_empty_dirs
    /\ site' = site + 1
    /\ plan' = <<>>
    /\ done' = 0
    /\ pc' = "sites"
    /\ UNCHANGED <<local, server, remote, conf, cmdline_opts, calls,
                   applied_actions, exit_status, empty_directories, restVars>>

\* The loop over conf.items() is over: main returns.
ReturnFromMain ==
    /\ pc = "sites"
    /\ site > Len(conf)
    /\ exit_status' = 0
    /\ pc' = "exit"
    /\ UNCHANGED <<local, server, remote, conf, cmdline_opts, site, plan,
                   done, calls, applied_actions, empty_directories, restVars>>

NextMain ==
    \/ StartSite
    \/ LocalWalkRaises
    \/ ListRaises
    \/ UploadAction
    \/ DeleteAction
    \/ SkipAction
    \/ ActionRaises
    \/ SearchEmptyDirs
    \/ SearchRaises
    \/ DeleteEmptyDir
    \/ DeleteEmptyDirRaises
    \/ FinishSite
    \/ ReturnFromMain

SpecMain == InitMain /\ [][NextMain]_vars

-----------------------------------------------------------------------------
(* Properties of main *)

\* The calls made for the plan of the site main is at.
PlanCalls ==
    SelectSeq(calls, LAMBDA c :
        c.site = SiteNames[site] /\ c.phase = "plan" /\ c.op # "list")

\* The actions of the plan handled so far that are not DoNothing.
Handled == SelectSeq(SubSeq(plan, 1, done), LAMBDA a : a.kind # "DoNothing")

\* main is inside the with-block of a site, or has left it by an exception.
InSite == site <= Len(conf) /\ pc \in {"actions", "empty", "exit"}

C12_AbortOnFailure ==
    \A i \in 1..Len(calls) :
        (calls[i].phase = "plan" /\ calls[i].op # "list" /\ ~calls[i].ok) =>
            /\ i = Len(calls)
            /\ pc = "exit"
            /\ exit_status = 1
            /\ ~ENABLED NextMain

\* The first action of the first site's plan raised while the plan had more
\* actions, the site has remove_empty_dirs set and a second site follows.
C12_Witness ==
    /\ pc = "exit"
    /\ exit_status = 1
    /\ site = 1
    /\ Len(conf) > 1
    /\ conf[1].remove_empty_dirs
    /\ done = 0
    /\ Len(plan) >= 2
    /\ Len(calls) = 2
    /\ calls[2].phase = "plan"
    /\ ~calls[2].ok

\* The sites the command line asks for: the named ones, all when none is
\* named.
Selected ==
    IF cmdline_opts.sites = <<>> THEN Range(SiteNames)
    ELSE Range(cmdline_opts.sites)

\* C13 (site selection): a client call is made only for a site the command
\* line selects (the sites named with -s, every site when none is named),
\* and a run that ends with status 0 has listed every selected site.
C13_SiteSelection ==
    /\ \A i \in 1..Len(calls) : calls[i].site \in Selected
    /\ (pc = "exit" /\ exit_status = 0) =>
            \A s \in Selected : \E i \in 1..Len(calls) : calls[i].site = s

\* C14 (dry run): with --dry-run no upload and no delete is called, for a
\* plan action or for an empty directory, the server holds what it held,
\* and applied_actions counts every UpdateRemote and DeleteRemote handled.
C14_DryRun ==
    cmdline_opts.dry_run =>
        /\ \A i \in 1..Len(calls) : calls[i].op = "list"
        /\ (site <= Len(conf) /\ pc \in {"actions", "empty"}) =>
                /\ server = conf[site].api_key
                /\ applied_actions = Len(Handled)

\* A dry run that has handled a plan with an UpdateRemote and a
\* DeleteRemote and has gone past an empty directory of the site.
C14_Witness ==
    /\ cmdline_opts.dry_run
    /\ pc = "empty"
    /\ done = Len(plan)
    /\ \E i \in 1..Len(plan) : plan[i].kind = "UpdateRemote"
    /\ \E i \in 1..Len(plan) : plan[i].kind = "DeleteRemote"
    /\ applied_actions >= 2
    /\ Len(empty_directories) < Len(list_empty_directories(remote))

-----------------------------------------------------------------------------
(* Properties of TreePathSpec.match *)

\* The scope directory root is the rooted path file or an ancestor of it.
InScope(root, file) ==
    root = "/" \/ file = root \/ startswith(file, root \o "/")

\* The file passes the test on relpath for the k-th scope of the list.
Passes(list, k, file, cwd) ==
    ~startswith(relpath(file, list[k][1], cwd), "../")

\* The scopes whose matcher match consults for the file: every scope that
\* passes the test and that the loop reaches, no scope before it having
\* matched.
Consulted(list, file, cwd) ==
    { k \in 1..Len(list) :
        /\ Passes(list, k, file, cwd)
        /\ \A j \in 1..(k - 1) :
                ~(/\ Passes(list, j, file, cwd)
                  /\ match_file(list[j][2],
                                _add_slash(relpath(file, list[j][1], cwd)))) }

\* C19 (scope rule): for a rooted path, a scope's matcher is consulted only
\* when the scope directory is the path or an ancestor of it, and a path
\* that is in no loaded scope, the parent directory of a scope included, is
\* not reported as ignored.
C19_ScopeRule ==
    (pc = "return" /\ startswith(arg.file, "/")) =>
        /\ \A k \in Consulted(pathspec_list, arg.file, arg.cwd) :
                InScope(pathspec_list[k][1], arg.file)
        /\ (\A k \in 1..Len(pathspec_list) :
                ~InScope(pathspec_list[k][1], arg.file)) => ret.value = FALSE

-----------------------------------------------------------------------------
(* IgnoreFiles.filter *)

\* ignore_files.py: allowed_extensions.split()
allowed_extensions ==
    << "asc", "atom", "bin", "css", "csv", "dae", "eot", "epub", "geojson",
       "gif", "gltf", "htm", "html", "ico", "jpeg", "jpg", "js", "json",
       "key", "kml", "knowl", "less", "manifest", "markdown", "md", "mf",
       "mid", "midi", "mtl", "obj", "opml", "otf", "pdf", "pgp", "png", "rdf",
       "rss", "sass", "scss", "svg", "text", "tsv", "ttf", "txt", "webapp",
       "webmanifest", "webp", "woff", "woff2", "xcf", "xml" >>

\* ignore_files.py: vcs_files
vcs_files == { ".git", ".hg", ".svn", ".bzr" }

LowerCase == "abcdefghijklmnopqrstuvwxyz"
UpperCase == "ABCDEFGHIJKLMNOPQRSTUVWXYZ"

RECURSIVE upper(_)
\* str.upper
upper(s) ==
    IF s = "" THEN ""
    ELSE LET c == Ch(s, 1)
             u == IF \E k \in 1..Len(LowerCase) : Ch(LowerCase, k) = c
                  THEN Ch(UpperCase,
                          CHOOSE k \in 1..Len(LowerCase) : Ch(LowerCase, k) = c)
                  ELSE c
         IN  u \o upper(SubSeq(s, 2, Len(s)))

RECURSIVE lstrip(_)
\* s.lstrip(".")
lstrip(s) ==
    IF s # "" /\ Ch(s, 1) = "." THEN lstrip(SubSeq(s, 2, Len(s))) ELSE s

\* os.path.basename
basename(path) == LET segs == split(path) IN segs[Len(segs)]

\* file_extension: os.path.splitext(file)[1], the part of the basename from
\* its last "." on, when a character other than "." comes before that ".".
file_extension(file) ==
    LET base == basename(file)
        dots == { k \in 1..Len(base) : Ch(base, k) = "." }
    IN  IF dots = {} THEN ""
        ELSE LET last == CHOOSE k \in dots : \A j \in dots : j <= k
             IN  IF \E j \in 1..(last - 1) : Ch(base, j) # "."
                 THEN SubSeq(base, last, Len(base))
                 ELSE ""

\* path_match_any_element; condition is the callable as a function on the
\* elements of the path.
path_match_any_element(path, condition) ==
    \E i \in 1..Len(split(path)) : condition[split(path)[i]]

\* Optional[List[str]] holding a list
Some(list) == [list |-> list]

\* exts as filter computes it from the config
ExtsOf(config) ==
    LET exts == IF config.allowed_extensions = None
                THEN allowed_extensions
                ELSE config.allowed_extensions.list
    IN  { "." \o upper(lstrip(exts[i])) : i \in 1..Len(exts) }

\* the extension test without upper() on the file's extension
HasAllowedExtensionCaseMutant(f, exts) ==
    f.is_directory \/ file_extension(f.path) \in exts

\* lambda f: f.is_directory or (f.extension.upper() in exts)
HasAllowedExtension(f, exts) ==
    f.is_directory \/ upper(file_extension(f.path)) \in exts

\* IgnoreFiles.filter: the values of tree after each of its five steps, with
\* the TreePathSpec loaded as list and the process in directory cwd.
FilterSteps(config, tree, list, cwd) ==
    LET t1 == SelectSeq(tree, LAMBDA f :
                    basename(f.path) # ".neocitiesignore")
        t2 == IF ~config.sync_disallowed
              THEN SelectSeq(t1, LAMBDA f :
                        HasAllowedExtension(f, ExtsOf(config)))
              ELSE t1
        t3 == SelectSeq(t2, LAMBDA f : ~match(list, f.path, cwd))
        t4 == IF ~config.sync_hidden
              THEN SelectSeq(t3, LAMBDA f :
                        ~path_match_any_element(f.path,
                            [p \in Range(split(f.path)) |->
                                startswith(p, ".")]))
              ELSE t3
        t5 == IF ~config.sync_vcs
              THEN SelectSeq(t4, LAMBDA f :
                        ~path_match_any_element(f.path,
                            [p \in Range(split(f.path)) |->
                                p \in vcs_files]))
              ELSE t4
    IN  << t1, t2, t3, t4, t5 >>

\* filter that returns before the hidden-file and VCS steps
FilterWithoutHiddenMutant(config, tree, list, cwd) ==
    FilterSteps(config, tree, list, cwd)[3]

\* IgnoreFiles.filter
filter(config, tree, list, cwd) == FilterSteps(config, tree, list, cwd)[5]

\* The local tree of the site, as local.filetree(".") lists it.
FilterTree ==
    << DirEntry(".git", "mtime"),
       FileEntry(".git/config", 1, "mtime"),
       FileEntry(".git/logo.png", 1, "mtime"),
       FileEntry(".hidden.html", 1, "mtime"),
       FileEntry(".neocitiesignore", 1, "mtime"),
       FileEntry("PIC.JPG", 1, "mtime"),
       FileEntry("README", 1, "mtime"),
       FileEntry("index.html", 1, "mtime"),
       DirEntry("keep", "mtime"),
       FileEntry("keep/.neocitiesignore", 1, "mtime"),
       FileEntry("keep/debug.log", 1, "mtime"),
       FileEntry("keep/notes.txt", 1, "mtime"),
       FileEntry("video.mp4", 1, "mtime") >>

\* The values of allowed_extensions in a section of the config file.
AllowedExtensionsValues ==
    { None, Some(<< ".html", ".css", ".js" >>), Some(<< "JPG", "mp4", "log" >>) }

\* The site configurations.
FilterConfigs ==
    [sync_disallowed : BOOLEAN, sync_hidden : BOOLEAN, sync_vcs : BOOLEAN,
     allowed_extensions : AllowedExtensionsValues]

\* The site directory holds one ignore file at most.
FilterIgnoreFileSets == { s \in IgnoreFileSets : Len(s) <= 1 }

InitFilter ==
    /\ ignore_files \in FilterIgnoreFileSets
    /\ pathspec_list = <<>>
    /\ \E config \in FilterConfigs, cwd \in WorkDirs :
            arg = [config |-> config, tree |-> FilterTree, cwd |-> cwd]
    /\ ret = Idle
    /\ NoMain
    /\ pc = "init"
    /\ local = <<>>
    /\ server = <<>>
    /\ remote = <<>>
    /\ second = FALSE
    /\ pairs = <<>>
    /\ idx = 1
    /\ pending = <<>>
    /\ deleted = <<>>
    /\ emitted = <<>>
    /\ dropped = <<>>

\* IgnoreFiles.__init__: TreePathSpec(".", ".neocitiesignore").load()
IgnoreFilesInit ==
    /\ pc = "init"
    /\ pathspec_list' = LoadedList(ignore_files)
    /\ pc' = "call"
    /\ UNCHANGED <<syncVars, ignore_files, pureVars, mainVars>>

\* IgnoreFiles.filter(tree)
CallFilter ==
    /\ pc = "call"
    /\ ret' = [value |-> filter(arg.config, arg.tree, pathspec_list, arg.cwd),
               steps |-> FilterSteps(arg.config, arg.tree, pathspec_list,
                                     arg.cwd)]
    /\ pc' = "return"
    /\ UNCHANGED <<syncVars, matchVars, arg, mainVars>>

NextFilter ==
    \/ IgnoreFilesInit
    \/ CallFilter

SpecFilter == InitFilter /\ [][NextFilter]_vars

-----------------------------------------------------------------------------
(* Properties of IgnoreFiles.filter *)

\* The extension of each path of FilterTree, in lower case without its dot.
ExtensionOf(p) ==
    CASE p = "PIC.JPG" -> "jpg"
      [] p = "index.html" -> "html"
      [] p = ".hidden.html" -> "html"
      [] p = ".git/logo.png" -> "png"
      [] p = "keep/debug.log" -> "log"
      [] p = "keep/notes.txt" -> "txt"
      [] p = "video.mp4" -> "mp4"
      [] OTHER -> "none"

\* The extensions a configuration allows, in lower case without their dots.
AllowedOf(config) ==
    IF config.allowed_extensions = None THEN Range(allowed_extensions)
    ELSE IF config.allowed_extensions = Some(<< ".html", ".css", ".js" >>)
    THEN { "html", "css", "js" }
    ELSE { "jpg", "mp4", "log" }

\* The version-control entries of FilterTree.
VcsPaths == { ".git", ".git/config", ".git/logo.png" }

PathsIn(tree) == { tree[i].path : i \in 1..Len(tree) }

C17_DefaultSyncsAll ==
    (pc = "return" /\ arg.config.allowed_extensions = None) =>
        ret.steps[2] = ret.steps[1]

\* C18 (sync_vcs): with sync_vcs the hidden-file step and the VCS step drop
\* no version-control entry; without it no version-control entry is left.
C18_SyncVcs ==
    pc = "return" =>
        IF arg.config.sync_vcs
        THEN PathsIn(ret.steps[3]) \cap VcsPaths \subseteq PathsIn(ret.value)
        ELSE PathsIn(ret.value) \cap VcsPaths = {}

\* C20 (nested ignore files over local entries): an entry that lies in a
\* directory below the root whose ignore file excludes it is not in the
\* tree filter returns, wherever the site directory is.
C20_NestedIgnore ==
    pc = "return" =>
        \A k \in 1..Len(ignore_files) :
            LET dir == SubSeq(ignore_files[k][1], 3, Len(ignore_files[k][1]))
            IN  ignore_files[k][1] # "." =>
                    \A q \in PathsIn(arg.tree) :
                        (/\ startswith(q, dir \o "/")
                         /\ match_file(ignore_files[k][2],
                                       SubSeq(q, Len(dir) + 2, Len(q))))
                            => q \notin PathsIn(ret.value)

\* The paths of FilterTree named like the ignore file, and those with an
\* element that starts with ".".
IgnoreNamePaths == { ".neocitiesignore", "keep/.neocitiesignore" }
HiddenPaths ==
    { ".git", ".git/config", ".git/logo.png", ".hidden.html",
      ".neocitiesignore", "keep/.neocitiesignore" }

\* The entry passes step n of the pipeline, a step the configuration
\* disables letting every entry pass.
PassesStep(n, f) ==
    CASE n = 1 -> f.path \notin IgnoreNamePaths
      [] n = 2 -> \/ arg.config.sync_disallowed
                  \/ f.is_directory
                  \/ ExtensionOf(f.path) \in AllowedOf(arg.config)
      [] n = 3 -> ~match(pathspec_list, f.path, arg.cwd)
      [] n = 4 -> arg.config.sync_hidden \/ f.path \notin HiddenPaths
      [] OTHER -> arg.config.sync_vcs \/ f.path \notin VcsPaths

RECURSIVE StepsInOrder(_, _)
\* The steps applied one after the other in the given order.
StepsInOrder(order, tree) ==
    IF order = <<>> THEN tree
    ELSE StepsInOrder(Tail(order),
                      SelectSeq(tree, LAMBDA f : PassesStep(Head(order), f)))

\* Other orders of the five steps.
OtherOrders == { <<5, 4, 3, 2, 1>>, <<3, 1, 5, 2, 4>>, <<2, 3, 4, 5, 1>> }

\* C21 (order independence of the pipeline): the tree filter returns holds
\* exactly the entries of its input that pass every enabled step, in their
\* input order, and is the tree the five steps give in another order.
C21_OrderIndependence ==
    pc = "return" =>
        /\ ret.value = SelectSeq(arg.tree, LAMBDA f :
                            \A n \in 1..5 : PassesStep(n, f))
        /\ \A order \in OtherOrders :
                ret.value = StepsInOrder(order, arg.tree)

\* A call in which each of the first four steps drops an entry and entries
\* are left.
C21_Witness ==
    /\ pc = "return"
    /\ Len(ret.steps[1]) < Len(arg.tree)
    /\ \A n \in 1..3 : Len(ret.steps[n + 1]) < Len(ret.steps[n])
    /\ ret.value # <<>>

-----------------------------------------------------------------------------
(* Further properties of main *)

\* C22 (input error): for a site whose local walk meets a path that is
\* neither a file nor a directory, no client call is ever made, neither the
\* listing nor an upload or a delete, and once main has reached that site
\* the process has ended with exit status 1 and goes no further.
C22_InputError ==
    \A i \in 1..Len(conf) :
        conf[i].irregular =>
            /\ \A k \in 1..Len(calls) : calls[k].site # SiteNames[i]
            /\ site <= i
            /\ (site = i /\ pc # "sites") =>
                    /\ pc = "exit"
                    /\ exit_status = 1
                    /\ ~ENABLED NextMain

\* The first site has been synced with an upload, the walk of the second
\* site has raised and the process has ended.
C22_Witness ==
    /\ pc = "exit"
    /\ exit_status = 1
    /\ site = 2
    /\ conf[2].irregular
    /\ conf[2].api_key # <<>>
    /\ \E k \in 1..Len(calls) : calls[k].op = "upload"
    /\ \A k \in 1..Len(calls) : calls[k].site = SiteNames[1] /\ calls[k].ok

-----------------------------------------------------------------------------
(* Further properties of a sync run *)

\* The entry of a tree at p is a file.
IsFileAt(tree, p) == find(tree, p) # None /\ ~find(tree, p).is_directory

\* The entry of a tree at p is a directory.
IsDirAt(tree, p) == find(tree, p) # None /\ find(tree, p).is_directory

\* C23 (zip's pairs): for two trees with unique paths no pair of zip is
\* (absent, absent) or (directory, directory); every pair has a file on at
\* least one side, so _choose_action_for_pair never answers a pair of
\* sync_actions with the empty list of those two branches.
C23_PairsHaveAFile ==
    (pc \in {"sync", "done"} /\ TreeOK(local) /\ TreeOK(remote)) =>
        \A k \in 1..Len(pairs) :
            /\ ~(pairs[k][1] = None /\ pairs[k][2] = None)
            /\ ~(/\ pairs[k][1] # None /\ pairs[k][1].is_directory
                 /\ pairs[k][2] # None /\ pairs[k][2].is_directory)
            /\ \/ pairs[k][1] # None /\ ~pairs[k][1].is_directory
               \/ pairs[k][2] # None /\ ~pairs[k][2].is_directory
            /\ _choose_action_for_pair(pairs[k][1], pairs[k][2]) # <<>>

\* A run over two trees that share a directory, one of them with a
\* directory the other one lacks, every pair of which has been decided.
C23_Witness ==
    /\ pc = "done"
    /\ Len(pairs) >= 2
    /\ \E p \in PathUniverse : IsDirAt(local, p) /\ IsDirAt(remote, p)
    /\ \E p \in PathUniverse : IsDirAt(remote, p) /\ find(local, p) = None

\* p is a directory in every tree that has an entry at p, and in one at
\* least.
DirectoryOnly(p) ==
    /\ find(local, p) # None \/ find(remote, p) # None
    /\ find(local, p) # None => find(local, p).is_directory
    /\ find(remote, p) # None => find(remote, p).is_directory

\* C24 (directories get no action): a path that is a directory in every
\* tree where it exists is the path of no action of sync_actions, emitted,
\* suppressed or about to be looked at; a remote directory without local
\* counterpart is never itself deleted.
C24_NoActionForDirectories ==
    pc \in {"sync", "done"} =>
        \A p \in PathUniverse :
            DirectoryOnly(p) =>
                /\ \A i \in 1..Len(emitted) : emitted[i].path # p
                /\ \A i \in 1..Len(dropped) : dropped[i].path # p
                /\ \A i \in 1..Len(pending) : pending[i].path # p

\* A finished run that emitted a deletion although the remote has a
\* directory without local counterpart and a directory shared with local,
\* the remote-only directory still being on the server.
C24_Witness ==
    /\ pc = "done"
    /\ \E i \in 1..Len(emitted) : emitted[i].kind = "DeleteRemote"
    /\ \E p \in PathUniverse :
            /\ IsDirAt(remote, p) /\ find(local, p) = None
            /\ IsDirAt(server, p)
    /\ \E p \in PathUniverse : IsDirAt(local, p) /\ IsDirAt(remote, p)

\* C25 (every remote file is accounted for): when sync_actions is exhausted,
\* for each file p of the remote tree at which the local tree handed to
\* sync_actions has no entry, DeleteRemote(p) has been emitted, or the
\* DeleteRemote of a remote directory that is a proper ancestor of p.
C25_RemoteFilesAccounted ==
    (pc = "done" /\ TreeOK(local) /\ TreeOK(remote)) =>
        \A p \in PathUniverse :
            (IsFileAt(remote, p) /\ find(local, p) = None) =>
                \/ HasEmitted("DeleteRemote", p)
                \/ \E d \in PathUniverse :
                       /\ IsUnder(p, d)
                       /\ IsDirAt(remote, d)
                       /\ HasEmitted("DeleteRemote", d)

\* A finished run with two remote files the local tree has no entry for:
\* one whose own deletion was emitted, and one covered by the emitted
\* deletion of a directory above it.
C25_Witness ==
    /\ pc = "done"
    /\ \E p \in PathUniverse :
            /\ IsFileAt(remote, p) /\ find(local, p) = None
            /\ HasEmitted("DeleteRemote", p)
    /\ \E p \in PathUniverse :
            /\ IsFileAt(remote, p) /\ find(local, p) = None
            /\ ~HasEmitted("DeleteRemote", p)
            /\ \E d \in PathUniverse :
                   IsUnder(p, d) /\ HasEmitted("DeleteRemote", d)

\* C26 (uploads are never undone): in the stream of emitted actions no
\* DeleteRemote(d) comes after an UpdateRemote(p) with d = p or p under d/.
C26_UploadsNotUndone ==
    \A i \in 1..Len(emitted), j \in 1..Len(emitted) :
        (/\ i < j
         /\ emitted[i].kind = "UpdateRemote"
         /\ emitted[j].kind = "DeleteRemote")
            => /\ emitted[j].path # emitted[i].path
               /\ ~IsUnder(emitted[i].path, emitted[j].path)

\* A finished run in which a deletion was emitted after an upload, and in
\* which a path got its DeleteRemote and then its UpdateRemote.
C26_Witness ==
    /\ pc = "done"
    /\ \E i \in 1..Len(emitted), j \in 1..Len(emitted) :
            /\ i < j
            /\ emitted[i].kind = "UpdateRemote"
            /\ emitted[j].kind = "DeleteRemote"
    /\ \E i \in 1..Len(emitted), j \in 1..Len(emitted) :
            /\ i < j
            /\ emitted[i].kind = "DeleteRemote"
            /\ emitted[j].kind = "UpdateRemote"
            /\ emitted[i].path = emitted[j].path

\* The pair of p makes _choose_action_for_pair answer with a DeleteRemote.
ChoosesDelete(p) ==
    \E k \in 1..Len(pairs) :
        LET acts == _choose_action_for_pair(pairs[k][1], pairs[k][2])
        IN  \E n \in 1..Len(acts) :
                acts[n].kind = "DeleteRemote" /\ acts[n].path = p

\* C27 (deleted paths are distinct and prefix-free): two emitted
\* DeleteRemote actions never have the same path nor one path under the
\* other one followed by "/"; a path whose DeleteRemote was chosen and that
\* only begins with the characters of a deleted path, without being under
\* any deleted path, has its DeleteRemote emitted.
C27_DeletesPrefixFree ==
    /\ \A i \in 1..Len(emitted), j \in 1..Len(emitted) :
            (/\ i # j
             /\ emitted[i].kind = "DeleteRemote"
             /\ emitted[j].kind = "DeleteRemote")
                => /\ emitted[i].path # emitted[j].path
                   /\ ~IsUnder(emitted[i].path, emitted[j].path)
    /\ pc = "done" =>
            \A d \in PathUniverse, q \in PathUniverse :
                (/\ HasEmitted("DeleteRemote", d)
                 /\ q # d
                 /\ startswith(q, d)
                 /\ ChoosesDelete(q)
                 /\ \A e \in PathUniverse :
                        HasEmitted("DeleteRemote", e) => ~IsUnder(q, e))
                    => HasEmitted("DeleteRemote", q)

\* A finished run that emitted the deletions of "a" and of "a-" and
\* dropped the deletion of a path under "a/".
C27_Witness ==
    /\ pc = "done"
    /\ HasEmitted("DeleteRemote", "a")
    /\ HasEmitted("DeleteRemote", "a-")
    /\ \E i \in 1..Len(dropped) : IsUnder(dropped[i].path, "a")

\* C28 (action targets exist): the path of every emitted UpdateRemote is the
\* path of a file of the local tree, and the path of every emitted
\* DeleteRemote is the path of an entry of the remote tree.
C28_TargetsExist ==
    \A i \in 1..Len(emitted) :
        /\ emitted[i].kind = "UpdateRemote" => IsFileAt(local, emitted[i].path)
        /\ emitted[i].kind = "DeleteRemote" =>
                find(remote, emitted[i].path) # None

\* A finished run that uploaded a file over a remote directory and deleted
\* a remote file at the path of a local directory.
C28_Witness ==
    /\ pc = "done"
    /\ \E i \in 1..Len(emitted) :
            /\ emitted[i].kind = "UpdateRemote"
            /\ IsDirAt(remote, emitted[i].path)
    /\ \E i \in 1..Len(emitted) :
            /\ emitted[i].kind = "DeleteRemote"
            /\ IsDirAt(local, emitted[i].path)

-----------------------------------------------------------------------------
(* Further properties of TreePathSpec.match *)

\* The rooted path file relative to the scope directory root that encloses
\* it, with its leading "/".
RelativeTo(root, file) ==
    IF root = "/" THEN file ELSE SubSeq(file, Len(root) + 1, Len(file))

\* The k-th scope of the list encloses the file and its matcher excludes the
\* file relative to the scope.
Excludes(list, k, file) ==
    /\ InScope(list[k][1], file)
    /\ match_file(list[k][2], RelativeTo(list[k][1], file))

\* The list with its scopes in any other order.
Reordered(list) ==
    { [i \in 1..Len(list) |-> list[f[i]]] :
        f \in { g \in [1..Len(list) -> 1..Len(list)] :
                   \A i \in 1..Len(list), j \in 1..Len(list) :
                       g[i] = g[j] => i = j } }

\* C29 (match is a disjunction over the scopes): for a rooted path, match
\* returns true exactly when one loaded scope at least encloses the path and
\* its matcher excludes the path relative to the scope; the result is the
\* same for every order of the scope list.
C29_Disjunction ==
    (pc = "return" /\ startswith(arg.file, "/")) =>
        /\ ret.value =
                (\E k \in 1..Len(pathspec_list) :
                    Excludes(pathspec_list, k, arg.file))
        /\ \A list \in Reordered(pathspec_list) :
                match(list, arg.file, arg.cwd) = ret.value

-----------------------------------------------------------------------------
(* Properties of the removal of empty directories *)

\* The calls made for site s while its empty directories are removed.
EmptyPhase(s) ==
    SelectSeq(calls, LAMBDA c : c.site = s /\ c.phase = "empty")

\* The paths of the deletes of empty directories made for site s that did
\* not raise.
EmptyDeletes(s) ==
    LET made == SelectSeq(EmptyPhase(s), LAMBDA c : c.op = "delete" /\ c.ok)
    IN  [i \in 1..Len(made) |-> made[i].path]

====
